---------------------------- MODULE Spec2Model ----------------------------
(***************************************************************************)
(* A model of the tesseract OLAP engine's query validation                 *)
(* (Schema::sql_query), cube auto-detection (detect_cube), the aggregate   *)
(* request handler (do_aggregate) and the ClickHouse backend adapter       *)
(* (exec_sql_stream, check_user).                                          *)
(*                                                                         *)
(* A Rust String is a sequence of tokens; the token "." is the path        *)
(* separator and every other token is a run of non-separator characters.   *)
(***************************************************************************)
EXTENDS Integers, Sequences, FiniteSets, TLC

VARIABLES
    schema,        \* AppState.schema: the ordered cubes of the loaded Schema
    sqCall,        \* arguments of the last Schema::sql_query call
    sqResult,      \* what that call returned
    dcReq,         \* the AggregateQueryOpt handed to detect_cube
    dcResult,      \* what detect_cube returned
    aggPc,         \* position of the do_aggregate request
    aggSchema,     \* the request's clone of the schema
    aggIn,         \* the request: cube, option set, member validation's answer
    aggQuery,      \* the result of converting the option set to a Query
    aggSql,        \* the result of schema.sql_query
    aggLog,        \* the steps the request has run, in order
    aggResponse,   \* the HTTP response, once there is one
    execCalls,     \* number of backend.exec_sql invocations
    poolAvail,     \* connections the pool can still hand out
    stState,       \* per stream: position of the exec_sql_stream result
    stBlocks,      \* per stream: the blocks the backend execution produced
    stRecv,        \* per stream: the items the consumer received, in order
    cuIn,          \* the session the check_user query finds
    cuResult,      \* what the check_user future resolved to
    cuWarnings,    \* number of warn! lines check_user logged
    schemaLock,    \* the RwLock around AppState.schema: "free" or "write"
    reloadTo,      \* the schema a reload in progress is storing
    reloadPos,     \* how many cubes of it are stored
    loaded,        \* the schemas that were completely loaded, in order
    rdPc,          \* per concurrent request: its position
    rdIn,          \* per concurrent request: its kind, cube and credentials
    rdSnap,        \* per concurrent request: its clone of the schema
    rdUsed,        \* per concurrent request: the schema each step worked on
    rdOut          \* per concurrent request: its outcome

vars == << schema, sqCall, sqResult, dcReq, dcResult, aggPc, aggSchema, aggIn,
           aggQuery, aggSql, aggLog, aggResponse, execCalls, poolAvail, stState, stBlocks,
           stRecv, cuIn, cuResult, cuWarnings, schemaLock, reloadTo, reloadPos,
           loaded, rdPc, rdIn, rdSnap, rdUsed, rdOut >>

queryVars  == << sqCall, sqResult >>
detectVars == << dcReq, dcResult >>
aggVars    == << aggPc, aggSchema, aggIn, aggQuery, aggSql, aggLog, aggResponse,
                 execCalls >>
streamVars == << poolAvail, stState, stBlocks, stRecv >>
userVars   == << cuIn, cuResult, cuWarnings >>
reloadVars == << schemaLock, reloadTo, reloadPos, loaded >>
readerVars == << rdPc, rdIn, rdSnap, rdUsed, rdOut >>

-----------------------------------------------------------------------------
(* Bounds of the model.                                                    *)

MaxCubes == 2
MaxDrilldowns == 2
MaxCuts == 1
MaxMeasures == 2
MaxBlocks == 2
PoolMax == 1
MaxSettings == 3
MaxReloads == 1

\* All sequences over S of length at most n.
SeqsUpTo(S, n) == UNION { [1..k -> S] : k \in 0..n }

-----------------------------------------------------------------------------
(* Result<T, Error>                                                        *)

Ok(v)  == [ok |-> TRUE,  val |-> <<v>>, err |-> <<>>]
Err(e) == [ok |-> FALSE, val |-> <<>>,  err |-> <<e>>]
Unwrap(r) == r.val[1]
None == <<>>
Some(v) == <<v>>
Get(o) == o[1]

-----------------------------------------------------------------------------
(* Identifier model (tesseract_core::names).                               *)

Dot == "."

\* str::split("."): the segments between separators; an empty string has
\* one empty segment.
RECURSIVE SplitFrom(_, _, _)
SplitFrom(s, i, cur) ==
    IF i > Len(s) THEN << cur >>
    ELSE IF s[i] = Dot THEN << cur >> \o SplitFrom(s, i + 1, << >>)
    ELSE SplitFrom(s, i + 1, Append(cur, s[i]))

Split(s) == SplitFrom(s, 1, << >>)

\* LevelName::from_vec: exactly three non-empty segments.
LevelName_from_vec(e) ==
    IF Len(e) = 3 /\ \A i \in 1..3 : e[i] # << >>
    THEN Ok([dimension |-> e[1], hierarchy |-> e[2], level |-> e[3]])
    ELSE Err("ParseError")

\* MeasureName::new wraps the string.
MeasureName_new(m) == [measure |-> m]

\* <Drilldown as FromStr>::from_str: a full LevelName path.
Drilldown_parse(s) == LevelName_from_vec(Split(s))

\* <Cut as FromStr>::from_str: a LevelName path and a trailing member segment.
Cut_parse(s) ==
    LET e == Split(s) IN
    IF Len(e) = 4 /\ e[4] # << >> /\ LevelName_from_vec(SubSeq(e, 1, 3)).ok
    THEN Ok([level_name |-> Unwrap(LevelName_from_vec(SubSeq(e, 1, 3))),
             members |-> << e[4] >>])
    ELSE Err("ParseError")

Measure_parse(s) == Ok(MeasureName_new(s))

-----------------------------------------------------------------------------
(* Schema metadata (tesseract_core::schema).                               *)

LN(d, h, l) == [dimension |-> <<d>>, hierarchy |-> <<h>>, level |-> <<l>>]

CubeSales ==
    [name |-> "sales", table |-> "sales_fact",
     levels |-> { LN("geo", "geo", "state"), LN("time", "time", "year") },
     measures |-> { MeasureName_new(<<"revenue">>) }]

CubePop ==
    [name |-> "pop", table |-> "pop_fact",
     levels |-> { LN("geo", "geo", "state") },
     measures |-> { MeasureName_new(<<"population">>) }]

CubeTrade ==
    [name |-> "trade", table |-> "trade_fact",
     levels |-> { LN("time", "time", "year") },
     measures |-> { MeasureName_new(<<"revenue">>) }]

Cubes == { CubeSales, CubePop, CubeTrade }

\* The schemas a server can have loaded: cubes in declaration order.
Schemas == SeqsUpTo(Cubes, MaxCubes)

get_all_level_names(cube) == cube.levels
get_all_measure_names(cube) == cube.measures

CubeNames == { c.name : c \in Cubes } \cup { "nocube" }


\* Schema::cube_metadata: the first cube with the name, if any.
RECURSIVE FindCube(_, _, _)
FindCube(sch, name, i) ==
    IF i > Len(sch) THEN None
    ELSE IF sch[i].name = name THEN Some(sch[i])
    ELSE FindCube(sch, name, i + 1)

cube_metadata(sch, name) == FindCube(sch, name, 1)

-----------------------------------------------------------------------------
(* Query IR and Schema::sql_query (tesseract-core/src/lib.rs).             *)

GeoState == LN("geo", "geo", "state")
TimeYear == LN("time", "time", "year")

QueryLevels == { GeoState, TimeYear }
QueryCuts == { [level_name |-> l, members |-> << <<"1">> >>] : l \in QueryLevels }
MeasureStrings == { <<"revenue">>, <<"zzz">> }
QueryMeasures == { MeasureName_new(m) : m \in MeasureStrings }

Queries ==
    [drilldowns : SeqsUpTo(QueryLevels, MaxDrilldowns),
     cuts       : SeqsUpTo(QueryCuts, MaxCuts),
     measures   : SeqsUpTo(QueryMeasures, MaxMeasures)]

ErrNoMeasure == "No measure found; please specify at least one"
ErrNoDrillOrCut == "Either a drilldown or cut is required"
ErrNoTable == "No table found for cube"
ErrCutCols == "Error getting cut cols"
ErrDrillCols == "Error getting drill cols"
ErrMeaCols == "Error getting mea cols"

\* The private lookups of Schema, as lib.rs defines them.
cube_table(sch, cube) == Some("")
cube_cut_cols(sch, cube, cuts) == Ok(<< >>)
cube_drill_cols(sch, cube, drills) == Ok(<< >>)
cube_mea_cols(sch, cube, mea) == Ok(<< >>)

\* sql::clickhouse_sql: the statement built from the resolved columns.
clickhouse_sql(table, cut_cols, drill_cols, mea_cols) ==
    [from |-> table, where |-> cut_cols, group_by |-> drill_cols,
     select |-> drill_cols \o mea_cols]

\* sql_query with the two emptiness checks in the other order.
sql_query_dc_first(sch, cube, query) ==
    IF query.drilldowns = << >> /\ query.cuts = << >> THEN Err(ErrNoDrillOrCut)
    ELSE IF query.measures = << >> THEN Err(ErrNoMeasure)
    ELSE Ok(clickhouse_sql("", << >>, << >>, << >>))

\* sql_query without the drilldown-or-cut check.
sql_query_no_dc_check(sch, cube, query) ==
    IF query.measures = << >> THEN Err(ErrNoMeasure)
    ELSE Ok(clickhouse_sql("", << >>, << >>, << >>))

sql_query(sch, cube, query) ==
    IF query.measures = << >> THEN Err(ErrNoMeasure)
    ELSE IF query.drilldowns = << >> /\ query.cuts = << >> THEN Err(ErrNoDrillOrCut)
    ELSE
      LET table      == cube_table(sch, cube)
          cut_cols   == cube_cut_cols(sch, cube, query.cuts)
          drill_cols == cube_drill_cols(sch, cube, query.drilldowns)
          mea_cols   == cube_mea_cols(sch, cube, query.measures)
      IN  IF table = None THEN Err(ErrNoTable)
          ELSE IF ~cut_cols.ok THEN Err(ErrCutCols)
          ELSE IF ~drill_cols.ok THEN Err(ErrDrillCols)
          ELSE IF ~mea_cols.ok THEN Err(ErrMeaCols)
          ELSE Ok(clickhouse_sql(Get(table), Unwrap(cut_cols),
                                 Unwrap(drill_cols), Unwrap(mea_cols)))

NoCall == << >>

\* A caller invokes schema.sql_query(cube, query, Database::Clickhouse).
SqlQuery ==
    /\ sqCall = NoCall
    /\ \E cube \in CubeNames, query \in Queries :
         /\ sqCall' = << [cube |-> cube, query |-> query] >>
         /\ sqResult' = << sql_query(schema, cube, query) >>
    /\ UNCHANGED << schema, detectVars, aggVars, streamVars, userVars, reloadVars, readerVars >>

-----------------------------------------------------------------------------
(* Cube auto-detection (handlers/logic_layer/detection.rs).                *)

DrilldownStrings ==
    { <<"geo", Dot, "geo", Dot, "state">>,
      <<"time", Dot, "time", Dot, "year">>,
      <<"geo", Dot, "state">>,
      <<"geo", Dot, Dot, "state">> }

CutStrings ==
    { <<"geo", Dot, "geo", Dot, "state", Dot, "1">>,
      <<"geo", Dot, "1">> }

\* Option<Vec<String>>: None, or Some(list).
OptionLists(S, n) == { None } \cup { Some(l) : l \in SeqsUpTo(S, n) }

\* AggregateQueryOpt: the three lists, and `rest` for whether the other
\* options (properties, filters, captions, top, top_where, sort, limit,
\* growth, rca, rate) all parse.
OptsWith(rest) ==
    [drilldowns : OptionLists(DrilldownStrings, MaxDrilldowns),
     cuts       : OptionLists(CutStrings, MaxCuts),
     measures   : OptionLists(MeasureStrings, MaxMeasures),
     rest       : rest]

AggregateQueryOpts == OptsWith({"ok", "bad"})

\* The option sets detect_cube is tried on; it reads the three lists only.
DetectOpts == OptsWith({"ok"})

ErrNoCubes == "No cubes found with the requested drilldowns/cuts/measures."

\* for drilldown in drilldowns { match from_vec(split) { Ok => push, Err => break } }
RECURSIVE ParseDrilldownsFrom(_, _, _)
ParseDrilldownsFrom(drilldowns, i, d) ==
    IF i > Len(drilldowns) THEN d
    ELSE LET ln == LevelName_from_vec(Split(drilldowns[i]))
         IN  IF ln.ok THEN ParseDrilldownsFrom(drilldowns, i + 1, Append(d, Unwrap(ln)))
             ELSE d

DetectDrilldowns(agg_query) ==
    IF agg_query.drilldowns = None THEN << >>
    ELSE ParseDrilldownsFrom(Get(agg_query.drilldowns), 1, << >>)

\* for cut in cuts { match from_vec(e[..e.len()-1]) { Ok => push, Err => break } }
RECURSIVE ParseCutsFrom(_, _, _)
ParseCutsFrom(cuts, i, c) ==
    IF i > Len(cuts) THEN c
    ELSE LET e  == Split(cuts[i])
             ln == LevelName_from_vec(SubSeq(e, 1, Len(e) - 1))
         IN  IF ln.ok THEN ParseCutsFrom(cuts, i + 1, Append(c, Unwrap(ln)))
             ELSE c

DetectCuts(agg_query) ==
    IF agg_query.cuts = None THEN << >>
    ELSE ParseCutsFrom(Get(agg_query.cuts), 1, << >>)

DetectMeasures(agg_query) ==
    IF agg_query.measures = None THEN << >>
    ELSE LET ms == Get(agg_query.measures)
         IN  [k \in 1..Len(ms) |-> MeasureName_new(ms[k])]

\* The value of `exit` after a loop that sets it on the first name the cube
\* lacks.
LoopExit(names, declared) == \E k \in 1..Len(names) : names[k] \notin declared

\* A loop body that ignores the cuts.
ReachesReturn_no_cuts(cube, drilldowns, cuts, measures) ==
    ~LoopExit(drilldowns, get_all_level_names(cube))

\* A measure loop that sets `exit` and is followed by `if exit { continue }`.
ReachesReturn_measures_reject(cube, drilldowns, cuts, measures) ==
    /\ ~LoopExit(drilldowns, get_all_level_names(cube))
    /\ ~LoopExit(cuts, get_all_level_names(cube))
    /\ ~LoopExit(measures, get_all_measure_names(cube))

\* One iteration of `for cube in schema.cubes`: whether it reaches
\* `return Ok(cube.name)`. The measure loop only breaks.
ReachesReturn(cube, drilldowns, cuts, measures) ==
    /\ ~LoopExit(drilldowns, get_all_level_names(cube))
    /\ ~LoopExit(cuts, get_all_level_names(cube))

RECURSIVE DetectFrom(_, _, _, _, _)
DetectFrom(cubes, i, drilldowns, cuts, measures) ==
    IF i > Len(cubes) THEN Err(ErrNoCubes)
    ELSE IF ReachesReturn(cubes[i], drilldowns, cuts, measures) THEN Ok(cubes[i].name)
    ELSE DetectFrom(cubes, i + 1, drilldowns, cuts, measures)

detect_cube(sch, agg_query) ==
    DetectFrom(sch, 1, DetectDrilldowns(agg_query), DetectCuts(agg_query),
               DetectMeasures(agg_query))

\* do_cube_detection_aggregation hands the schema and the option set to
\* detect_cube.
DetectCube ==
    /\ dcReq = NoCall
    /\ \E agg_query \in DetectOpts :
         /\ dcReq' = << agg_query >>
         /\ dcResult' = << detect_cube(schema, agg_query) >>
    /\ UNCHANGED << schema, queryVars, aggVars, streamVars, userVars, reloadVars, readerVars >>

-----------------------------------------------------------------------------
(* The aggregate handler (handlers/aggregate.rs).                          *)

\* ds.iter().map(|d| d.parse()).collect::<Result<Vec<_>, _>>() over an
\* Option<Vec<String>>, with unwrap_or(Ok(vec![])).
TryDrilldowns(opt) ==
    IF opt = None THEN Ok(<< >>)
    ELSE LET l == Get(opt)
         IN  IF \E k \in 1..Len(l) : ~Drilldown_parse(l[k]).ok THEN Err("ParseError")
             ELSE Ok([k \in 1..Len(l) |-> Unwrap(Drilldown_parse(l[k]))])

TryCuts(opt) ==
    IF opt = None THEN Ok(<< >>)
    ELSE LET l == Get(opt)
         IN  IF \E k \in 1..Len(l) : ~Cut_parse(l[k]).ok THEN Err("ParseError")
             ELSE Ok([k \in 1..Len(l) |-> Unwrap(Cut_parse(l[k]))])

TryMeasures(opt) ==
    IF opt = None THEN Ok(<< >>)
    ELSE LET l == Get(opt)
         IN  IF \E k \in 1..Len(l) : ~Measure_parse(l[k]).ok THEN Err("ParseError")
             ELSE Ok([k \in 1..Len(l) |-> Unwrap(Measure_parse(l[k]))])

\* impl TryFrom<AggregateQueryOpt> for TsQuery
try_from(agg_query_opt) ==
    LET drilldowns == TryDrilldowns(agg_query_opt.drilldowns)
        cuts       == TryCuts(agg_query_opt.cuts)
        measures   == TryMeasures(agg_query_opt.measures)
    IN  IF ~drilldowns.ok THEN Err("ParseError")
        ELSE IF ~cuts.ok THEN Err("ParseError")
        ELSE IF ~measures.ok THEN Err("ParseError")
        ELSE IF agg_query_opt.rest # "ok" THEN Err("ParseError")
        ELSE Ok([drilldowns |-> Unwrap(drilldowns), cuts |-> Unwrap(cuts),
                 measures |-> Unwrap(measures)])

\* The schema a running server has loaded.
LoadedSchema == << CubePop, CubeSales >>

NotFound(step) == << [status |-> "NotFound", from |-> step] >>
NoResponse == << >>

\* ok_or_404!(ts_query): where the handler goes after the conversion.
AfterTryInto(ts_query) == IF ts_query.ok THEN "validate_members" ELSE "done"

\* ok_or_404!(query_ir_headers) without the early return.
AfterSqlQuery_unchecked(query_ir_headers) == "exec_sql"

\* ok_or_404!(query_ir_headers): where the handler goes after sql_query.
AfterSqlQuery(query_ir_headers) == IF query_ir_headers.ok THEN "exec_sql" ELSE "done"

\* Lines 52-56: clone the schema under the read lock, look the cube up.
AggGetCube ==
    /\ aggPc = "get_cube"
    /\ \E cube \in CubeNames :
         /\ aggSchema' = Some(schema)
         /\ aggIn' = [aggIn EXCEPT !.cube = Some(cube)]
         /\ IF cube_metadata(schema, cube) = None
            THEN aggPc' = "done" /\ aggResponse' = NotFound("get_cube")
            ELSE aggPc' = "authorize" /\ UNCHANGED aggResponse
    /\ aggLog' = Append(aggLog, "get_cube")
    /\ UNCHANGED << schema, aggQuery, aggSql, execCalls,
                    queryVars, detectVars, streamVars, userVars, reloadVars, readerVars >>

\* Lines 58-60: verify_authorization(&req, cube_obj.min_auth_level).
AggAuthorize ==
    /\ aggPc = "authorize"
    /\ \E authorized \in BOOLEAN :
         IF authorized
         THEN aggPc' = "parse_format" /\ UNCHANGED aggResponse
         ELSE /\ aggPc' = "done"
              /\ aggResponse' = << [status |-> "Unauthorized", from |-> "authorize"] >>
    /\ aggLog' = Append(aggLog, "authorize")
    /\ UNCHANGED << schema, aggSchema, aggIn, aggQuery, aggSql, execCalls,
                    queryVars, detectVars, streamVars, userVars, reloadVars, readerVars >>

\* Lines 62-63: format.parse::<FormatType>().
AggParseFormat ==
    /\ aggPc = "parse_format"
    /\ \E known \in BOOLEAN :
         IF known
         THEN aggPc' = "deserialize" /\ UNCHANGED aggResponse
         ELSE aggPc' = "done" /\ aggResponse' = NotFound("parse_format")
    /\ aggLog' = Append(aggLog, "parse_format")
    /\ UNCHANGED << schema, aggSchema, aggIn, aggQuery, aggSql, execCalls,
                    queryVars, detectVars, streamVars, userVars, reloadVars, readerVars >>

\* Lines 67-72: deserialize the query string into an AggregateQueryOpt.
AggDeserialize ==
    /\ aggPc = "deserialize"
    /\ \/ \E agg_query \in AggregateQueryOpts :
            /\ aggIn' = [aggIn EXCEPT !.opt = Some(agg_query)]
            /\ aggPc' = "try_into"
            /\ UNCHANGED aggResponse
       \/ /\ aggPc' = "done"
          /\ aggResponse' = NotFound("deserialize")
          /\ UNCHANGED aggIn
    /\ aggLog' = Append(aggLog, "deserialize")
    /\ UNCHANGED << schema, aggSchema, aggQuery, aggSql, execCalls,
                    queryVars, detectVars, streamVars, userVars, reloadVars, readerVars >>

\* Lines 80-82: agg_query.try_into().
AggTryInto ==
    /\ aggPc = "try_into"
    /\ LET ts_query == try_from(Get(aggIn.opt))
       IN  /\ aggQuery' = Some(ts_query)
           /\ aggPc' = AfterTryInto(ts_query)
           /\ aggResponse' = IF ts_query.ok THEN aggResponse ELSE NotFound("try_into")
    /\ aggLog' = Append(aggLog, "try_into")
    /\ UNCHANGED << schema, aggSchema, aggIn, aggSql, execCalls,
                    queryVars, detectVars, streamVars, userVars, reloadVars, readerVars >>

\* Lines 88-92: find the cube in the members cache, validate the cut
\* members against it.
AggValidateMembers ==
    /\ aggPc = "validate_members"
    /\ \E cached \in BOOLEAN, valid \in BOOLEAN :
         /\ aggIn' = [aggIn EXCEPT !.members_ok = Some(cached /\ valid)]
         /\ IF cached /\ valid
            THEN aggPc' = "sql_query" /\ UNCHANGED aggResponse
            ELSE aggPc' = "done" /\ aggResponse' = NotFound("validate_members")
    /\ aggLog' = Append(aggLog, "validate_members")
    /\ UNCHANGED << schema, aggSchema, aggQuery, aggSql, execCalls,
                    queryVars, detectVars, streamVars, userVars, reloadVars, readerVars >>

\* Lines 94-95: schema.sql_query(&cube, &ts_query, ..).
AggSqlQuery ==
    /\ aggPc = "sql_query"
    /\ LET query_ir_headers ==
               sql_query(Get(aggSchema), Get(aggIn.cube), Unwrap(Get(aggQuery)))
       IN  /\ aggSql' = Some(query_ir_headers)
           /\ aggPc' = AfterSqlQuery(query_ir_headers)
           /\ aggResponse' = IF query_ir_headers.ok THEN aggResponse
                             ELSE NotFound("sql_query")
    /\ aggLog' = Append(aggLog, "sql_query")
    /\ UNCHANGED << schema, aggSchema, aggIn, aggQuery, execCalls,
                    queryVars, detectVars, streamVars, userVars, reloadVars, readerVars >>

\* Lines 97-106: backend.generate_sql(query_ir), backend.exec_sql(sql).
AggExecSql ==
    /\ aggPc = "exec_sql"
    /\ execCalls' = execCalls + 1
    /\ aggPc' = "backend"
    /\ aggLog' = Append(aggLog, "exec_sql")
    /\ UNCHANGED << schema, aggSchema, aggIn, aggQuery, aggSql, aggResponse,
                    queryVars, detectVars, streamVars, userVars, reloadVars, readerVars >>

\* Lines 107-126: the exec_sql future resolves; and_then formats the
\* DataFrame, map_err turns a backend error into ServerError::Db.
AggBackendReply ==
    /\ aggPc = "backend"
    /\ \E status \in { "Ok", "NotFound", "Db" } :
         aggResponse' = << [status |-> status, from |-> "exec_sql"] >>
    /\ aggPc' = "done"
    /\ aggLog' = Append(aggLog, "reply")
    /\ UNCHANGED << schema, aggSchema, aggIn, aggQuery, aggSql, execCalls,
                    queryVars, detectVars, streamVars, userVars, reloadVars, readerVars >>

-----------------------------------------------------------------------------
(* The ClickHouse adapter: exec_sql_stream (tesseract-clickhouse/lib.rs).  *)

Streams == { "s1", "s2" }

\* Native result blocks: one column each, told apart by name and type.
BlockInt == [name |-> "year", sql_type |-> "UInt32", data |-> << 2017, 2018 >>]
BlockDec == [name |-> "share", sql_type |-> "Decimal", data |-> << 1 >>]
Blocks == { BlockInt, BlockDec }

\* df::block_to_df: each native type tag maps to one ColumnData variant; a
\* type without a variant fails the conversion.
block_to_df(block) ==
    IF block.sql_type = "UInt32"
    THEN Ok([columns |-> << [name |-> block.name,
                            column_data |-> [variant |-> "UInt32", values |-> block.data]] >>])
    ELSE IF block.sql_type = "String"
    THEN Ok([columns |-> << [name |-> block.name,
                            column_data |-> [variant |-> "Text", values |-> block.data]] >>])
    ELSE Err("TypeConversion")

\* A stream that hands the blocks out last-first.
NextItem_reversed(blocks, received) ==
    block_to_df(blocks[Len(blocks) - Len(received)])

\* stream_blocks().map(block_to_df): the item after `received` items.
NextItem(blocks, received) == block_to_df(blocks[Len(received) + 1])

\* The handle `c` moves into the block stream: the stream owns a pooled
\* connection from the moment get_handle resolves until it ends or is dropped.
HoldsHandle(st) == st = "streaming"

\* A handle that goes back to the pool only when the stream runs to its end.
ReleasedOnDrop_leak(st) == 0

\* Dropping the stream drops what it owns; a dropped handle returns its
\* connection to the pool.
ReleasedOnDrop(st) == IF HoldsHandle(st) THEN 1 ELSE 0

\* exec_sql_stream(sql): builds the lazy stream; nothing runs until polled.
ExecSqlStream(s) ==
    /\ stState[s] \in { "idle", "ended", "failed", "abandoned" }
    /\ stState' = [stState EXCEPT ![s] = "created"]
    /\ stBlocks' = [stBlocks EXCEPT ![s] = << >>]
    /\ stRecv' = [stRecv EXCEPT ![s] = << >>]
    /\ UNCHANGED << poolAvail, schema, queryVars, detectVars, aggVars, userVars, reloadVars, readerVars >>

\* First polls: pool.get_handle() resolves with a connection and the query
\* is sent; the backend's execution produces its blocks.
StreamGetHandle(s) ==
    /\ stState[s] = "created"
    /\ poolAvail > 0
    /\ poolAvail' = poolAvail - 1
    /\ \E blocks \in SeqsUpTo(Blocks, MaxBlocks) :
         stBlocks' = [stBlocks EXCEPT ![s] = blocks]
    /\ stState' = [stState EXCEPT ![s] = "streaming"]
    /\ UNCHANGED << stRecv, schema, queryVars, detectVars, aggVars, userVars, reloadVars, readerVars >>

\* pool.get_handle() fails: the stream yields the error and is over.
StreamGetHandleFails(s) ==
    /\ stState[s] = "created"
    /\ stState' = [stState EXCEPT ![s] = "failed"]
    /\ UNCHANGED << poolAvail, stBlocks, stRecv,
                    schema, queryVars, detectVars, aggVars, userVars, reloadVars, readerVars >>

\* The consumer polls and receives the next item.
StreamNext(s) ==
    /\ stState[s] = "streaming"
    /\ Len(stRecv[s]) < Len(stBlocks[s])
    /\ stRecv' = [stRecv EXCEPT ![s] = Append(@, NextItem(stBlocks[s], @))]
    /\ UNCHANGED << poolAvail, stState, stBlocks,
                    schema, queryVars, detectVars, aggVars, userVars, reloadVars, readerVars >>

\* The consumer polls after the last block: the stream ends and is dropped.
StreamEnd(s) ==
    /\ stState[s] = "streaming"
    /\ Len(stRecv[s]) = Len(stBlocks[s])
    /\ poolAvail' = poolAvail + ReleasedOnDrop(stState[s])
    /\ stState' = [stState EXCEPT ![s] = "ended"]
    /\ UNCHANGED << stBlocks, stRecv,
                    schema, queryVars, detectVars, aggVars, userVars, reloadVars, readerVars >>

\* The consumer drops the stream before its end.
StreamAbandon(s) ==
    /\ stState[s] \in { "created", "streaming" }
    /\ poolAvail' = poolAvail + ReleasedOnDrop(stState[s])
    /\ stState' = [stState EXCEPT ![s] = "abandoned"]
    /\ UNCHANGED << stBlocks, stRecv,
                    schema, queryVars, detectVars, aggVars, userVars, reloadVars, readerVars >>

-----------------------------------------------------------------------------
(* The ClickHouse adapter: check_user.                                     *)

SettingNames == { "readonly", "allow_ddl", "max_threads" }
SettingValues == { "0", "1", "2" }

\* Row 0 of system.processes: Settings.Names and Settings.Values, parallel
\* arrays without repeated names.
Sessions ==
    UNION { { [names |-> n, values |-> v] :
                n \in { f \in [1..k -> SettingNames] :
                          \A i, j \in 1..k : f[i] = f[j] => i = j },
                v \in [1..k -> SettingValues] } : k \in 0..MaxSettings }

Contains(seq, x) == \E i \in 1..Len(seq) : seq[i] = x

\* names.iter().position(|&r| r == x).unwrap()
Position(seq, x) == CHOOSE i \in 1..Len(seq) : seq[i] = x /\ \A j \in 1..(i - 1) : seq[j] # x

\* The number of warn! lines the and_then closure logs (lines 94-108).
Warnings(session) ==
    IF Contains(session.names, "readonly") /\ Contains(session.names, "allow_ddl")
    THEN LET rd_value == session.values[Position(session.names, "readonly")]
             ad_value == session.values[Position(session.names, "allow_ddl")]
         IN  IF rd_value # "1" /\ ad_value # "0" THEN 1 ELSE 0
    ELSE 1

\* What the future resolves to: an error of get_handle or of the query goes
\* through map_err to the caller.
check_user(conn, session) ==
    IF conn = "ok" THEN [result |-> Ok("unit"), warnings |-> Warnings(session)]
    ELSE [result |-> Err(conn), warnings |-> 0]

CheckUser ==
    /\ cuResult = None
    /\ \E conn \in { "ok", "get_handle failed", "query failed" }, session \in Sessions :
         /\ cuIn' = Some([conn |-> conn, session |-> session])
         /\ cuResult' = Some(check_user(conn, session).result)
         /\ cuWarnings' = cuWarnings + check_user(conn, session).warnings
    /\ UNCHANGED << schema, queryVars, detectVars, aggVars, streamVars,
                    reloadVars, readerVars >>

-----------------------------------------------------------------------------
(* Requests running concurrently with a schema reload.                     *)

Requests == { "r1", "r2" }

\* A cube with its minimum authorization level.
WithAuth(cube, level) == cube @@ [min_auth_level |-> level]

SchemaOpen    == << WithAuth(CubePop, 0), WithAuth(CubeSales, 0) >>
SchemaPrivate == << WithAuth(CubeSales, 1), WithAuth(CubeTrade, 0) >>
SchemaSmall   == << WithAuth(CubeTrade, 1) >>

\* The schema files a reload can bring in.
ReloadSchemas == { SchemaOpen, SchemaPrivate, SchemaSmall }

Min(a, b) == IF a < b THEN a ELSE b
Max(a, b) == IF a < b THEN b ELSE a

\* The shared schema while a writer is storing `new` over `old`, i cubes in.
Torn(new, old, i) ==
    SubSeq(new, 1, Min(i, Len(new))) \o SubSeq(old, i + 1, Len(old))

\* The writer takes the write lock: no reader can be inside read().
ReloadBegin ==
    /\ schemaLock = "free"
    /\ Len(loaded) <= MaxReloads
    /\ \E new \in ReloadSchemas \ { schema } : reloadTo' = Some(new)
    /\ schemaLock' = "write"
    /\ reloadPos' = 0
    /\ UNCHANGED << schema, loaded, readerVars,
                    queryVars, detectVars, aggVars, streamVars, userVars >>

\* The writer stores the next cube of the new schema.
ReloadStore ==
    /\ schemaLock = "write"
    /\ reloadPos < Max(Len(Get(reloadTo)), Len(schema))
    /\ reloadPos' = reloadPos + 1
    /\ schema' = Torn(Get(reloadTo), schema, reloadPos + 1)
    /\ UNCHANGED << schemaLock, reloadTo, loaded, readerVars,
                    queryVars, detectVars, aggVars, streamVars, userVars >>

\* The store is complete; the writer releases the lock.
ReloadEnd ==
    /\ schemaLock = "write"
    /\ reloadPos >= Max(Len(Get(reloadTo)), Len(schema))
    /\ schemaLock' = "free"
    /\ reloadTo' = None
    /\ reloadPos' = 0
    /\ loaded' = Append(loaded, schema)
    /\ UNCHANGED << schema, readerVars,
                    queryVars, detectVars, aggVars, streamVars, userVars >>

\* A read() that does not wait for the writer.
CanRead_unlocked(lock) == TRUE

\* schema.read(): granted while no writer holds the lock.
CanRead(lock) == lock # "write"

\* A step that reads req.state().schema again.
RequestSchema_reread(r) == schema

\* The local `schema` of do_aggregate, the parameter `schema` of
\* detect_cube: the clone the request took.
RequestSchema(r) == Get(rdSnap[r])

\* verify_authorization: the credentials reach the cube's level.
verify_authorization(user_level, min_auth_level) == user_level >= min_auth_level

Use(r, step) == Append(rdUsed[r], [step |-> step, schema |-> RequestSchema(r)])

\* aggregate.rs line 55: clone the schema under the read lock.
RdAggSnapshot(r) ==
    /\ rdPc[r] = "idle"
    /\ CanRead(schemaLock)
    /\ rdSnap' = [rdSnap EXCEPT ![r] = Some(schema)]
    /\ \E cube \in { "sales", "nocube" }, user_level \in 0..1 :
         rdIn' = [rdIn EXCEPT
                    ![r] = [kind |-> "aggregate", cube |-> cube, user_level |-> user_level]]
    /\ rdPc' = [rdPc EXCEPT ![r] = "get_cube"]
    /\ UNCHANGED << schema, reloadVars, rdUsed, rdOut,
                    queryVars, detectVars, aggVars, streamVars, userVars >>

\* Line 56: schema.get_cube_by_name(&cube).
RdAggGetCube(r) ==
    /\ rdPc[r] = "get_cube"
    /\ rdUsed' = [rdUsed EXCEPT ![r] = Use(r, "get_cube_by_name")]
    /\ IF cube_metadata(RequestSchema(r), rdIn[r].cube) = None
       THEN /\ rdPc' = [rdPc EXCEPT ![r] = "done"]
            /\ rdOut' = [rdOut EXCEPT ![r] = Some("NotFound")]
       ELSE /\ rdPc' = [rdPc EXCEPT ![r] = "authorize"]
            /\ UNCHANGED rdOut
    /\ UNCHANGED << schema, reloadVars, rdIn, rdSnap,
                    queryVars, detectVars, aggVars, streamVars, userVars >>

\* Lines 58-60: verify_authorization(&req, cube_obj.min_auth_level).
RdAggAuthorize(r) ==
    /\ rdPc[r] = "authorize"
    /\ rdUsed' = [rdUsed EXCEPT ![r] = Use(r, "min_auth_level")]
    /\ LET cube_obj == Get(cube_metadata(RequestSchema(r), rdIn[r].cube))
       IN  IF verify_authorization(rdIn[r].user_level, cube_obj.min_auth_level)
           THEN /\ rdPc' = [rdPc EXCEPT ![r] = "parse"]
                /\ UNCHANGED rdOut
           ELSE /\ rdPc' = [rdPc EXCEPT ![r] = "done"]
                /\ rdOut' = [rdOut EXCEPT ![r] = Some("Unauthorized")]
    /\ UNCHANGED << schema, reloadVars, rdIn, rdSnap,
                    queryVars, detectVars, aggVars, streamVars, userVars >>

\* Lines 62-92: format, query string, conversion and member validation; none
\* of them reads the schema.
RdAggParse(r) ==
    /\ rdPc[r] = "parse"
    /\ \E ok \in BOOLEAN :
         IF ok
         THEN /\ rdPc' = [rdPc EXCEPT ![r] = "sql_query"]
              /\ UNCHANGED rdOut
         ELSE /\ rdPc' = [rdPc EXCEPT ![r] = "done"]
              /\ rdOut' = [rdOut EXCEPT ![r] = Some("NotFound")]
    /\ UNCHANGED << schema, reloadVars, rdIn, rdSnap, rdUsed,
                    queryVars, detectVars, aggVars, streamVars, userVars >>

\* The queries the conversion hands to sql_query here.
ReaderQueries ==
    { q \in Queries : Len(q.drilldowns) = 1 /\ q.cuts = << >> /\ Len(q.measures) <= 1 }

\* Lines 94-95: schema.sql_query(&cube, &ts_query, ..).
RdAggSqlQuery(r) ==
    /\ rdPc[r] = "sql_query"
    /\ rdUsed' = [rdUsed EXCEPT ![r] = Use(r, "sql_query")]
    /\ \E ts_query \in ReaderQueries :
         rdOut' = [rdOut EXCEPT
                     ![r] = Some(IF sql_query(RequestSchema(r), rdIn[r].cube, ts_query).ok
                                 THEN "Sql" ELSE "NotFound")]
    /\ rdPc' = [rdPc EXCEPT ![r] = "done"]
    /\ UNCHANGED << schema, reloadVars, rdIn, rdSnap,
                    queryVars, detectVars, aggVars, streamVars, userVars >>

\* detection.rs line 80: clone the schema under the read lock, as the
\* argument of detect_cube.
RdDetSnapshot(r) ==
    /\ rdPc[r] = "idle"
    /\ CanRead(schemaLock)
    /\ rdSnap' = [rdSnap EXCEPT ![r] = Some(schema)]
    /\ rdIn' = [rdIn EXCEPT ![r] = [kind |-> "detect", cube |-> "", user_level |-> 0]]
    /\ rdPc' = [rdPc EXCEPT ![r] = "detect_cube"]
    /\ UNCHANGED << schema, reloadVars, rdUsed, rdOut,
                    queryVars, detectVars, aggVars, streamVars, userVars >>

\* The option sets detection is run on here: one drilldown, nothing else.
ReaderOpts ==
    { o \in DetectOpts :
        /\ o.cuts = None /\ o.measures = None
        /\ o.drilldowns # None /\ Len(Get(o.drilldowns)) = 1 }

\* Lines 79-92: detect_cube(schema, agg_query) on the clone.
RdDetect(r) ==
    /\ rdPc[r] = "detect_cube"
    /\ rdUsed' = [rdUsed EXCEPT ![r] = Use(r, "detect_cube")]
    /\ \E agg_query \in ReaderOpts :
         LET cube == detect_cube(RequestSchema(r), agg_query)
         IN  rdOut' = [rdOut EXCEPT
                         ![r] = Some(IF cube.ok THEN Unwrap(cube) ELSE "NotFound")]
    /\ rdPc' = [rdPc EXCEPT ![r] = "done"]
    /\ UNCHANGED << schema, reloadVars, rdIn, rdSnap,
                    queryVars, detectVars, aggVars, streamVars, userVars >>

-----------------------------------------------------------------------------
(* Specifications.                                                         *)

QueryIdle  == sqCall = NoCall /\ sqResult = NoCall
DetectIdle == dcReq = NoCall /\ dcResult = NoCall
AggIdle ==
    /\ aggPc = "get_cube"
    /\ aggSchema = None
    /\ aggIn = [cube |-> None, opt |-> None, members_ok |-> None]
    /\ aggQuery = None
    /\ aggSql = None
    /\ aggLog = << >>
    /\ aggResponse = NoResponse
    /\ execCalls = 0
StreamIdle ==
    /\ poolAvail = PoolMax
    /\ stState = [s \in Streams |-> "idle"]
    /\ stBlocks = [s \in Streams |-> << >>]
    /\ stRecv = [s \in Streams |-> << >>]
UserIdle == cuIn = None /\ cuResult = None /\ cuWarnings = 0
ReloadIdle ==
    /\ schemaLock = "free"
    /\ reloadTo = None
    /\ reloadPos = 0
    /\ loaded = << schema >>
ReaderIdle ==
    /\ rdPc = [r \in Requests |-> "idle"]
    /\ rdIn = [r \in Requests |-> [kind |-> "", cube |-> "", user_level |-> 0]]
    /\ rdSnap = [r \in Requests |-> None]
    /\ rdUsed = [r \in Requests |-> << >>]
    /\ rdOut = [r \in Requests |-> None]

\* Calls of Schema::sql_query on any loaded schema.
InitQuery ==
    schema \in Schemas /\ QueryIdle /\ DetectIdle /\ AggIdle /\ StreamIdle /\ UserIdle
    /\ ReloadIdle /\ ReaderIdle
NextQuery == SqlQuery
SpecQuery == InitQuery /\ [][NextQuery]_vars

\* Calls of detect_cube on any loaded schema.
InitDetect == InitQuery
NextDetect == DetectCube
SpecDetect == InitDetect /\ [][NextDetect]_vars

\* One aggregate request through do_aggregate.
InitAggregate ==
    schema = LoadedSchema /\ QueryIdle /\ DetectIdle /\ AggIdle /\ StreamIdle /\ UserIdle
    /\ ReloadIdle /\ ReaderIdle
NextAggregate ==
    \/ AggGetCube
    \/ AggAuthorize
    \/ AggParseFormat
    \/ AggDeserialize
    \/ AggTryInto
    \/ AggValidateMembers
    \/ AggSqlQuery
    \/ AggExecSql
    \/ AggBackendReply
SpecAggregate == InitAggregate /\ [][NextAggregate]_vars

\* Streamed queries sharing the adapter's pool.
InitStream == InitAggregate
NextStream ==
    \E s \in Streams :
       \/ ExecSqlStream(s)
       \/ StreamGetHandle(s)
       \/ StreamGetHandleFails(s)
       \/ StreamNext(s)
       \/ StreamEnd(s)
       \/ StreamAbandon(s)
SpecStream == InitStream /\ [][NextStream]_vars

\* The start-up privilege check.
InitUser == InitAggregate
NextUser == CheckUser
SpecUser == InitUser /\ [][NextUser]_vars

\* Aggregate and detection requests running while the schema is reloaded.
InitReload ==
    schema = SchemaOpen /\ QueryIdle /\ DetectIdle /\ AggIdle /\ StreamIdle /\ UserIdle
    /\ ReloadIdle /\ ReaderIdle
NextReload ==
    \/ ReloadBegin
    \/ ReloadStore
    \/ ReloadEnd
    \/ \E r \in Requests :
          \/ RdAggSnapshot(r)
          \/ RdAggGetCube(r)
          \/ RdAggAuthorize(r)
          \/ RdAggParse(r)
          \/ RdAggSqlQuery(r)
          \/ RdDetSnapshot(r)
          \/ RdDetect(r)
SpecReload == InitReload /\ [][NextReload]_vars

-----------------------------------------------------------------------------
(* Properties of Schema::sql_query, under SpecQuery.                       *)

SqCube == Get(sqCall).cube
SqQuery == Get(sqCall).query
SqReturned == Get(sqResult)

\* C1: a query without measures gets the "no measure" error and no SQL,
\* whatever its cube name, drilldowns and cuts are.
SqlQueryNoMeasure ==
    (sqCall # NoCall /\ SqQuery.measures = << >>) => SqReturned = Err(ErrNoMeasure)

SqlQueryNoMeasureWitness ==
    /\ sqCall # NoCall
    /\ SqQuery.measures = << >>
    /\ SqQuery.drilldowns = << >>
    /\ SqQuery.cuts = << >>
    /\ SqCube = "nocube"
    /\ SqReturned = Err(ErrNoMeasure)

\* C2 as stated: a query without drilldowns and cuts gets the "drilldown or
\* cut required" error for any measures list and any cube name.
SqlQueryNoDrillOrCutAnyMeasures ==
    (sqCall # NoCall /\ SqQuery.drilldowns = << >> /\ SqQuery.cuts = << >>)
        => SqReturned = Err(ErrNoDrillOrCut)

\* C2 amended: a query with at least one measure and without drilldowns and
\* cuts gets the "drilldown or cut required" error, for any cube name.
SqlQueryNoDrillOrCut ==
    (/\ sqCall # NoCall
     /\ SqQuery.measures # << >>
     /\ SqQuery.drilldowns = << >>
     /\ SqQuery.cuts = << >>)
        => SqReturned = Err(ErrNoDrillOrCut)

SqlQueryNoDrillOrCutWitness ==
    /\ sqCall # NoCall
    /\ Len(SqQuery.measures) = 2
    /\ SqQuery.drilldowns = << >>
    /\ SqQuery.cuts = << >>
    /\ SqCube = "nocube"
    /\ SqReturned = Err(ErrNoDrillOrCut)

\* Whether the cube name and every cut, drilldown and measure of the query
\* resolve in the named cube of the schema.
Resolves(sch, cube, query) ==
    /\ cube_metadata(sch, cube) # None
    /\ LET c == Get(cube_metadata(sch, cube))
       IN  /\ \A k \in 1..Len(query.cuts) : query.cuts[k].level_name \in c.levels
           /\ \A k \in 1..Len(query.drilldowns) : query.drilldowns[k] \in c.levels
           /\ \A k \in 1..Len(query.measures) : query.measures[k] \in c.measures

\* C3: sql_query returns SQL only when the cube and every referenced
\* identifier resolve; it fails whenever one of them does not.
SqlQueryResolvesIdentifiers ==
    (sqCall # NoCall /\ SqReturned.ok) => Resolves(schema, SqCube, SqQuery)

-----------------------------------------------------------------------------
(* Properties of detect_cube, under SpecDetect.                            *)

DcReq == Get(dcReq)
DcReturned == Get(dcResult)

Range(seq) == { seq[k] : k \in 1..Len(seq) }

\* The levels detect_cube parsed out of the request's drilldowns and cuts.
ParsedLevels(agg_query) ==
    Range(DetectDrilldowns(agg_query)) \cup Range(DetectCuts(agg_query))

Satisfies(cube, agg_query) == ParsedLevels(agg_query) \subseteq cube.levels

WellFormedDrilldowns(agg_query) ==
    IF agg_query.drilldowns = None THEN { }
    ELSE { Unwrap(Drilldown_parse(d)) :
             d \in { x \in Range(Get(agg_query.drilldowns)) : Drilldown_parse(x).ok } }

\* C5: a malformed drilldown entry is skipped: the call does not fail because
\* of it, and every well-formed drilldown entry, before or after it, is
\* contained in the level names of the selected cube.
DetectCubeSkipsMalformed ==
    dcReq # NoCall =>
      /\ DcReturned.ok =>
           WellFormedDrilldowns(DcReq)
               \subseteq Get(cube_metadata(schema, Unwrap(DcReturned))).levels
      /\ ~DcReturned.ok =>
           \A i \in 1..Len(schema) :
              ~(WellFormedDrilldowns(DcReq) \cup Range(DetectCuts(DcReq))
                    \subseteq schema[i].levels)

-----------------------------------------------------------------------------
(* Properties of do_aggregate, under SpecAggregate.                        *)

\* The steps a, b, c, d stand in the log in this order.
InOrder(log, a, b, c, d) ==
    \E i, j, k, l \in 1..Len(log) :
       /\ i < j /\ j < k /\ k < l
       /\ log[i] = a /\ log[j] = b /\ log[k] = c /\ log[l] = d

StepFailed ==
    \/ aggQuery # None /\ ~Get(aggQuery).ok
    \/ aggIn.members_ok = Some(FALSE)
    \/ aggSql # None /\ ~Get(aggSql).ok

\* C7: exec_sql is invoked only after the option set converted, the cut
\* members validated and sql_query succeeded, in this order; a request on
\* which one of these steps fails ends with an error response and no
\* exec_sql call.
AggregateFailsBeforeBackend ==
    /\ execCalls > 0 =>
         /\ aggQuery = Some(try_from(Get(aggIn.opt)))
         /\ Get(aggQuery).ok
         /\ aggIn.members_ok = Some(TRUE)
         /\ aggSql = Some(sql_query(Get(aggSchema), Get(aggIn.cube), Unwrap(Get(aggQuery))))
         /\ Get(aggSql).ok
         /\ InOrder(aggLog, "try_into", "validate_members", "sql_query", "exec_sql")
    /\ StepFailed =>
         /\ execCalls = 0
         /\ aggPc = "done"
         /\ aggResponse # NoResponse
         /\ Get(aggResponse).status = "NotFound"
         /\ \A i \in 1..Len(aggLog) : aggLog[i] # "exec_sql"

AggregateFailsBeforeBackendWitness ==
    /\ aggPc = "done"
    /\ execCalls = 1
    /\ Get(aggResponse) = [status |-> "Ok", from |-> "exec_sql"]
    /\ Len(Unwrap(Get(aggQuery)).cuts) = 1

-----------------------------------------------------------------------------
(* Properties of exec_sql_stream, under SpecStream.                        *)

\* C8: a consumer that read a stream of K blocks to its end received exactly
\* K items, the i-th being the conversion of the i-th block.
StreamDeliversInOrder ==
    \A s \in Streams :
       stState[s] = "ended" =>
         /\ Len(stRecv[s]) = Len(stBlocks[s])
         /\ \A i \in 1..Len(stBlocks[s]) : stRecv[s][i] = block_to_df(stBlocks[s][i])

StreamDeliversInOrderWitness ==
    \E s \in Streams :
       /\ stState[s] = "ended"
       /\ Len(stBlocks[s]) = 2
       /\ stBlocks[s][1] # stBlocks[s][2]
       /\ Len(stRecv[s]) = 2

Consumed(s) == stState[s] \in { "created", "streaming" }

-----------------------------------------------------------------------------
(* Properties of check_user, under SpecUser.                               *)

\* Write access appears enabled: the session is not read-only, or DDL is
\* allowed, or one of the two settings is absent.
AppearsWritable(session) ==
    \/ ~Contains(session.names, "readonly")
    \/ ~Contains(session.names, "allow_ddl")
    \/ session.values[Position(session.names, "readonly")] # "1"
    \/ session.values[Position(session.names, "allow_ddl")] # "0"

\* C10: check_user completes successfully for every outcome of inspecting
\* the session, and logs a warning when write access appears enabled.
CheckUserNeverFails ==
    cuResult # None =>
      /\ Get(cuResult).ok
      /\ AppearsWritable(Get(cuIn).session) => cuWarnings > 0

-----------------------------------------------------------------------------
(* Properties of requests under a schema reload, under SpecReload.         *)

=============================================================================
